---------------------------- MODULE Spec2Model ----------------------------
(***************************************************************************)
(* A model of the risk service's model adapter                             *)
(* (src/server_fastapi/model_adapter.py) and of the caller                 *)
(* refresh_contributions (src/server_fastapi/app.py).                      *)
(*                                                                         *)
(* The adapter is built once (ModelAdapter.__init__), which is modelled    *)
(* step by step so that the order of the load strategies is visible, and   *)
(* is then used through status, predict and explain.  Everything the       *)
(* environment decides (which optional libraries import, which files       *)
(* exist, what a load call or a model call returns or raises) is a         *)
(* nondeterministic choice.                                                *)
(***************************************************************************)
EXTENDS Integers, Sequences, FiniteSets, TLC

(***************************************************************************)
(* Bounds of the model.                                                    *)
(***************************************************************************)
\* number of names in the adapter's feature_order (36 in app.py)
NumFeatures == 2
\* longest input sequence handed to predict
MaxRows == 2

(***************************************************************************)
(* Values.                                                                 *)
(***************************************************************************)
\* Python's None, for the adapter's optional fields
None == "None"

\* A float32 cell: a number or NaN.
Num(v) == [nan |-> FALSE, v |-> v]
NaN == [nan |-> TRUE, v |-> 0]
\* the largest finite float32 (3.4028235e38), in the model's units
FLOAT_MAX == 1000
\* float32 infinity: not NaN, and above every finite float
Inf == Num(FLOAT_MAX + 1)

\* A raw value found in a dict row: a number, "" , None, or a text float()
\* rejects; "absent" stands for a key the dict does not hold.
RawKinds == {"absent", "num", "empty", "none", "text"}

\* The adapter's feature_order: feature1 .. featureN.
FEATURE_ORDER == 1..NumFeatures

\* Strategy names, in the order the constructor writes them.
Strategies == <<"jit", "nn", "obj">>

VARIABLES
    torch,          \* the module-level name torch is not None
    joblib,         \* the module-level name joblib is not None
    scaler_exists,  \* scaler_path and os.path.exists(scaler_path)
    model_exists,   \* model_path and os.path.exists(model_path)
    gen_exists,     \* gen_path and os.path.exists(gen_path)
    pc,             \* position of the constructor; "ready" once it returned
    scaler,         \* self._scaler
    torch_model,    \* self._torch_model
    model,          \* self._model
    gen_model,      \* self._gen_model
    model_loaded,   \* self._model_loaded
    message,        \* self._message
    attempts,       \* history: the load strategies attempted, in order
    failed,         \* history: the load strategies that failed
    result,         \* what the last call of status/predict/explain did
    patient,        \* the patient dict refresh_contributions is working on
    prepared        \* what the last call of _prepare_input was given and did

\* The diffusion imputer (src/server_fastapi/model_impl.py, CSDI_base): its
\* noise schedule and one run of impute.
VARIABLES
    config,          \* config["diffusion"]: num_steps and the roots of the betas
    num_steps,       \* self.num_steps
    alpha_hat,       \* the buffer alpha_hat, in units of the smallest float
    alpha,           \* the buffer alpha, in units of the smallest float
    observed_data,   \* impute's argument observed_data
    cond_mask,       \* the shape of impute's argument cond_mask
    n_samples,       \* impute's argument n_samples
    cand,            \* the candidate x of the sample under way
    cur_t,           \* the loop variable t
    sample,          \* how many samples have been started
    imputed_samples, \* the list imputed_samples
    denoised,        \* history: the reverse steps done, in order
    imputed,         \* what the sampling run returned
    spc              \* position of the imputer

\* The updater of app.py (start_updater, update_patient) and the requests
\* served beside it.
VARIABLES
    PATIENTS,        \* the module-level list PATIENTS
    upc,             \* position of the task that runs loop()
    index,           \* the position of the for loop in PATIENTS
    now,             \* update_patient's local now
    clock,           \* how many sleep intervals of wall-clock time have passed
    wake_at,         \* the clock at which asyncio.sleep(1) returns
    running,         \* the task that holds the event loop
    overruns,        \* history: intervals that ended while a pass was running
    inflight,        \* history: calls of update_patient under way, by patient
    visits,          \* history: the patients the current pass has called
    appended,        \* history: riskHistory entries the current pass appended
    released,        \* history: the pass has let go of the event loop
    served           \* the last response a request handler has sent

\* build_model_sequence of app.py and what it reads.
VARIABLES
    seq_len,         \* the module-level MODEL_SEQ_LEN, read from the environment
    interval,        \* the module-level MODEL_INTERVAL_MINUTES
    subject,         \* the patient build_model_sequence is given
    end_time,        \* build_model_sequence's local end_time
    sequence,        \* what build_model_sequence returned
    bpc              \* position of build_model_sequence

\* One patient of app.py and the risks create_patient and update_patient
\* write into it.
VARIABLES
    chart,           \* the patient: currentRisk and the risks of riskHistory
    rpc              \* "import", then "created", or "failed" when
                     \* create_patient raised

env == <<torch, joblib, scaler_exists, model_exists, gen_exists>>
fields == <<scaler, torch_model, model, gen_model, model_loaded, message>>
history == <<attempts, failed>>
adapter == <<env, pc, fields, history, result, patient>>
schedule == <<config, num_steps, alpha_hat, alpha>>
run == <<observed_data, cond_mask, n_samples, cand, cur_t, sample,
         imputed_samples, denoised, imputed>>
impl == <<schedule, run, spc>>
updater == <<PATIENTS, upc, index, now, clock, wake_at, running, overruns,
             inflight, visits, appended, released, served>>
builder == <<seq_len, interval, subject, end_time, sequence, bpc>>
charting == <<chart, rpc>>
app == <<updater, builder, charting>>
\* what the adapter's own methods leave alone
outside == <<impl, prepared, app>>
\* the risk service: everything outside model_impl.py
service == <<adapter, prepared, app>>
\* everything outside app.py
library == <<adapter, prepared, impl>>
vars == <<adapter, outside>>

\* rows of a model sequence (12 unless the environment says otherwise)
MODEL_SEQ_LEN == 2
\* build_model_sequence has not been called.
NoSubject == [age |-> 0, sex |-> "", features |-> <<>>]
BuilderIdle ==
    /\ seq_len = MODEL_SEQ_LEN
    /\ interval = 1
    /\ subject = NoSubject
    /\ end_time = 0
    /\ sequence = <<>>
    /\ bpc = "idle"

\* create_patient has not been called.
NoChart == [features |-> FALSE, currentRisk |-> 0, riskHistory |-> <<>>,
            updated |-> FALSE]
ChartIdle == chart = NoChart /\ rpc = "idle"

\* app.py has not been imported: there are no patients and no updater.
NoResponse == [kind |-> "none", message |-> "", during_pass |-> FALSE,
               half |-> FALSE, uneven |-> FALSE]
AppIdle ==
    /\ PATIENTS = <<>>
    /\ upc = "idle"
    /\ index = 0
    /\ now = 0
    /\ clock = 0
    /\ wake_at = 0
    /\ running = "none"
    /\ overruns = 0
    /\ inflight = <<>>
    /\ visits = <<>>
    /\ appended = <<>>
    /\ released = FALSE
    /\ served = NoResponse
    /\ BuilderIdle
    /\ ChartIdle

\* ModelOutput.risk and ModelOutput.contributions: absent (None) or present
AbsentRisk == [present |-> FALSE, nan |-> FALSE, v |-> 0]
PresentRisk(x) == [present |-> TRUE, nan |-> x.nan, v |-> x.v]
AbsentContributions == [present |-> FALSE, map |-> <<>>]

\* No call has been made yet.
NoResult == [op |-> "none", raised |-> FALSE, risk |-> AbsentRisk,
             contributions |-> AbsentContributions, model_loaded |-> FALSE,
             message |-> ""]
NoPatient == [features |-> <<>>, topContributors |-> <<>>, source |-> <<>>]
\* _prepare_input has not been called.
NotPrepared == [called |-> FALSE, raised |-> FALSE, input_shape |-> <<>>,
                array |-> [shape |-> <<>>, cells |-> <<>>],
                input |-> [shape |-> <<>>, cells |-> <<>>],
                generated |-> [kind |-> "none", rows |-> 0, cols |-> 0,
                               fill |-> NaN],
                to_scaler |-> [shape |-> <<>>, cells |-> <<>>]]

\* A tensor is known by its shape and by whether one of its cells is NaN.
Tensor(shape, nan) == [shape |-> shape, nan |-> nan]
NoTensor == Tensor(<<>>, FALSE)
\* The candidate x: a tensor, and whether it is still the noise it was drawn
\* as ("noise") or has been through a reverse update ("update").
Candidate(shape, nan, origin) ==
    [shape |-> shape, nan |-> nan, origin |-> origin]
NoCandidate == Candidate(<<>>, FALSE, "none")
\* No CSDI_base has been built and impute has not been called.
NoConfig == [num_steps |-> 0, root_start |-> 0, root_end |-> 0]
ImplIdle ==
    /\ config = NoConfig
    /\ num_steps = 0
    /\ alpha_hat = <<>>
    /\ alpha = <<>>
    /\ observed_data = NoTensor
    /\ cond_mask = <<>>
    /\ n_samples = 0
    /\ cand = NoCandidate
    /\ cur_t = 0
    /\ sample = 0
    /\ imputed_samples = <<>>
    /\ denoised = <<>>
    /\ imputed = NoTensor
    /\ spc = "idle"

(***************************************************************************)
(* ModelAdapter.__init__                                                   *)
(***************************************************************************)
\* lines 30-49: the fields are reset and the three paths are resolved
Init ==
    /\ torch \in BOOLEAN
    /\ joblib \in BOOLEAN
    /\ scaler_exists \in BOOLEAN
    /\ model_exists \in BOOLEAN
    /\ gen_exists \in BOOLEAN
    /\ pc = "scaler"
    /\ scaler = None
    /\ torch_model = None
    /\ model = None
    /\ gen_model = None
    /\ model_loaded = FALSE
    /\ message = "stub"
    /\ attempts = <<>>
    /\ failed = {}
    /\ result = NoResult
    /\ patient = NoPatient
    /\ prepared = NotPrepared
    /\ ImplIdle
    /\ AppIdle

\* lines 51-60: joblib.load, or pickle.load when joblib did not import; the
\* loaded object may or may not have a transform method; a failure is recorded
\* in the message
LoadScaler ==
    /\ pc = "scaler"
    /\ pc' = "weights"
    /\ IF scaler_exists
       THEN \E o \in {"transformer", "plain", "raise"} :
              IF o = "raise"
              THEN /\ scaler' = None
                   /\ message' = "scaler_load_failed"
              ELSE /\ scaler' = o
                   /\ UNCHANGED message
       ELSE UNCHANGED <<scaler, message>>
    /\ UNCHANGED <<env, torch_model, model, gen_model, model_loaded, history,
                   result, patient, outside>>

\* CheckWeights without the test of line 63: the load is tried whether or not
\* torch was imported
CheckWeightsNoTorchTest ==
    /\ pc = "weights"
    /\ pc' = IF model_exists THEN "jit" ELSE "gen"
    /\ UNCHANGED <<env, fields, history, result, patient, outside>>

\* lines 62-65: no weight file: nothing is done; torch missing: only the
\* message changes; otherwise the first load strategy is entered
CheckWeights ==
    /\ pc = "weights"
    /\ IF ~model_exists
       THEN /\ pc' = "gen"
            /\ UNCHANGED message
       ELSE IF ~torch
            THEN /\ pc' = "gen"
                 /\ message' = "torch_missing"
            ELSE /\ pc' = "jit"
                 /\ UNCHANGED message
    /\ UNCHANGED <<env, scaler, torch_model, model, gen_model, model_loaded,
                   history, result, patient, outside>>

\* JitLoad that goes on to torch.load although torch.jit.load succeeded
JitLoadFallsThrough ==
    /\ pc = "jit"
    /\ pc' = "torch_load"
    /\ attempts' = Append(attempts, "jit")
    /\ \E o \in {"load_raises", "eval_raises", "ok"} :
         /\ torch_model' = IF o = "load_raises" THEN torch_model ELSE "jit"
         /\ IF o = "ok"
            THEN /\ model_loaded' = TRUE
                 /\ message' = "loaded_jit"
                 /\ UNCHANGED failed
            ELSE /\ failed' = failed \cup {"jit"}
                 /\ UNCHANGED <<model_loaded, message>>
    /\ UNCHANGED <<env, scaler, model, gen_model, result, patient, outside>>

\* lines 66-73: torch.jit.load, then eval(); the field is assigned before
\* eval() runs, the flag and the message only after it
JitLoad ==
    /\ pc = "jit"
    /\ attempts' = Append(attempts, "jit")
    /\ \E o \in {"load_raises", "eval_raises", "ok"} :
         /\ torch_model' = IF o = "load_raises" THEN torch_model ELSE "jit"
         /\ IF o = "ok"
            THEN /\ model_loaded' = TRUE
                 /\ message' = "loaded_jit"
                 /\ pc' = "gen"
                 /\ UNCHANGED failed
            ELSE /\ failed' = failed \cup {"jit"}
                 /\ pc' = "torch_load"
                 /\ UNCHANGED <<model_loaded, message>>
    /\ UNCHANGED <<env, scaler, model, gen_model, result, patient, outside>>

\* lines 74-87: torch.load; an nn.Module is kept as the torch model (and
\* eval() may raise after the assignment), anything else is kept as the
\* generic model
TorchLoad ==
    /\ pc = "torch_load"
    /\ pc' = "gen"
    /\ \E o \in {"load_raises", "module_ok", "module_eval_raises",
                 "object_with_predict", "object_plain"} :
         CASE o = "load_raises" ->
                /\ attempts' = Append(attempts, "nn")
                /\ failed' = failed \cup {"nn"}
                /\ model_loaded' = FALSE
                /\ message' = "load_failed"
                /\ UNCHANGED <<torch_model, model>>
           [] o = "module_ok" ->
                /\ attempts' = Append(attempts, "nn")
                /\ torch_model' = "nn"
                /\ model_loaded' = TRUE
                /\ message' = "loaded_nn"
                /\ UNCHANGED <<model, failed>>
           [] o = "module_eval_raises" ->
                /\ attempts' = Append(attempts, "nn")
                /\ failed' = failed \cup {"nn"}
                /\ torch_model' = "nn"
                /\ model_loaded' = FALSE
                /\ message' = "load_failed"
                /\ UNCHANGED model
           [] OTHER ->
                /\ attempts' = attempts \o <<"nn", "obj">>
                /\ failed' = failed \cup {"nn"}
                /\ model' = o
                /\ model_loaded' = TRUE
                /\ message' = "loaded_obj"
                /\ UNCHANGED torch_model
    /\ UNCHANGED <<env, scaler, gen_model, result, patient, outside>>

\* lines 89-100: the generator model: torch.jit.load then eval(), else
\* torch.load, kept only when it is an nn.Module; the outer handler leaves
\* the field as the inner block left it
LoadGen ==
    /\ pc = "gen"
    /\ pc' = "ready"
    /\ IF gen_exists /\ torch
       THEN \E j \in {"load_raises", "eval_raises", "ok"} :
              IF j = "ok"
              THEN gen_model' = "jit"
              ELSE \E o \in {"load_raises", "module_ok", "module_eval_raises",
                             "object"} :
                     gen_model' =
                       CASE o = "module_ok" -> "nn"
                         [] o = "object" ->
                              IF j = "eval_raises" THEN "jit" ELSE gen_model
                         [] OTHER -> None
       ELSE UNCHANGED gen_model
    /\ UNCHANGED <<env, scaler, torch_model, model, model_loaded, message,
                   history, result, patient, outside>>

Construct == LoadScaler \/ CheckWeights \/ JitLoad \/ TorchLoad \/ LoadGen

(***************************************************************************)
(* Inputs of predict and explain.                                          *)
(***************************************************************************)
\* A row that is a dict: one raw value (or no key) per feature name.
DictRows == [isdict : {TRUE}, cells : [FEATURE_ORDER -> RawKinds]]
\* A row that is not a dict: a list of floats of any length up to the width.
ListRows == [isdict : {FALSE},
             cells : UNION {[1..n -> {"num"}] : n \in 0..NumFeatures}]

\* A dict row holding a number under every feature name.
PlainRow == [isdict |-> TRUE, cells |-> [n \in FEATURE_ORDER |-> "num"]]
\* A dict row with at most one cell that is not a number.
OneOffRows ==
    {[isdict |-> TRUE,
      cells |-> [n \in FEATURE_ORDER |-> IF n = c THEN k ELSE "num"]] :
       c \in FEATURE_ORDER, k \in RawKinds}

\* features is one dict (any combination of raw values), or a sequence of up
\* to MaxRows rows: plain dict rows, of which at most one is replaced by a
\* row with a cell that is not a number or by a row that is not a dict.
SingleDicts == [single : {TRUE}, rows : [1..1 -> DictRows]]
\* one dict whose first value is float("inf") (or the text "inf", which
\* float() reads), the others numbers or missing
InfiniteDicts ==
    [single : {TRUE},
     rows : {[t \in 1..1 |->
                [isdict |-> TRUE,
                 cells |-> [n \in FEATURE_ORDER |->
                              IF n = 1 THEN "inf" ELSE k]]] :
               k \in {"num", "none"}}]
RowSequences ==
    [single : {FALSE},
     rows : {<<>>} \cup UNION {
              {[t \in 1..n |-> IF t = p THEN r ELSE PlainRow] :
                 p \in 1..n, r \in OneOffRows \cup ListRows} :
              n \in 1..MaxRows}]
Inputs == SingleDicts \cup RowSequences

(***************************************************************************)
(* ModelAdapter._vector_from_row                                           *)
(***************************************************************************)
\* lines 109-116: row.get(name, 0.0); "" and None become NaN; float(raw),
\* and NaN when float() raises
CellFromRaw(raw) ==
    CASE raw = "absent" -> Num(0)
      [] raw \in {"empty", "none"} -> NaN
      [] raw = "num" -> Num(5)
      [] raw = "inf" -> Inf
      [] OTHER -> NaN

\* line 109 calls row.get: a row that is no dict has no such method and the
\* call raises (AttributeError), which nothing in the adapter catches
vector_from_row(row) ==
    IF row.isdict
    THEN [raised |-> FALSE,
          values |-> [n \in FEATURE_ORDER |-> CellFromRaw(row.cells[n])]]
    ELSE [raised |-> TRUE, values |-> <<>>]

(***************************************************************************)
(* ModelAdapter._prepare_input                                             *)
(***************************************************************************)
\* np.array(rows, dtype=float32): shape (T, F); an empty list has shape (0,)
ArrayOf(rows) ==
    [shape |-> IF Len(rows) = 0 THEN <<0>> ELSE <<Len(rows), NumFeatures>>,
     cells |-> [t \in 1..Len(rows) |-> vector_from_row(rows[t]).values]]

AnyNaN(array) ==
    \E t \in 1..Len(array.cells) :
      \E n \in 1..Len(array.cells[t]) : array.cells[t][n].nan

\* np.nan_to_num(array, nan=0.0): NaN becomes 0.0 and, posinf being left at
\* its default, infinity becomes the largest finite float
NanToNum(array) ==
    [array EXCEPT !.cells =
       [t \in 1..Len(array.cells) |->
          [n \in 1..Len(array.cells[t]) |->
             IF array.cells[t][n].nan THEN Num(0)
             ELSE IF array.cells[t][n] = Inf THEN Num(FLOAT_MAX)
             ELSE array.cells[t][n]]]]

\* What the generator model may do with a tensor of shape (1, T, F): raise,
\* or return a tensor of shape (1, rows, cols) filled with a value.
GenOutcomes(array) ==
    {[kind |-> "raise", rows |-> 0, cols |-> 0, fill |-> NaN]} \cup
    [kind : {"tensor"},
     rows : {Len(array.cells), Len(array.cells) + 1},
     cols : {NumFeatures},
     fill : {Num(7), NaN}]

\* generated.squeeze(): every dimension of size 1 is dropped
Squeeze(shape) == SelectSeq(shape, LAMBDA d : d # 1)

\* lines 127-140: used only when a generator is loaded and a cell is NaN; the
\* generated values replace the NaN cells only when the squeezed shape equals
\* the array's shape; any exception leaves the array as it was
ApplyGen(array, g) ==
    IF gen_model # None /\ torch /\ AnyNaN(array)
       /\ g.kind = "tensor"
       /\ Squeeze(<<1, g.rows, g.cols>>) = array.shape
    THEN [array EXCEPT !.cells =
            [t \in 1..Len(array.cells) |->
               [n \in 1..Len(array.cells[t]) |->
                  IF array.cells[t][n].nan THEN g.fill
                  ELSE array.cells[t][n]]]]
    ELSE array

\* self._scaler.transform(array): a fitted scaler shifts every cell
ScalerTransform(array) ==
    [array EXCEPT !.cells =
       [t \in 1..Len(array.cells) |->
          [n \in 1..Len(array.cells[t]) |->
             [array.cells[t][n] EXCEPT !.v = @ - 1]]]]

\* lines 143-147: only a scaler that has a transform method is used, and an
\* exception of transform leaves the array as it was
ApplyScaler(array, s) ==
    IF scaler = "transformer" /\ s = "ok" THEN ScalerTransform(array)
    ELSE array

\* the choices the environment has in one call of _prepare_input
PrepOutcomes(features) ==
    [gen : IF gen_model # None /\ torch
                /\ AnyNaN(ArrayOf(features.rows))
           THEN GenOutcomes(ArrayOf(features.rows))
           ELSE {[kind |-> "raise", rows |-> 0, cols |-> 0, fill |-> NaN]},
     scaler : IF scaler = "transformer" THEN {"ok", "raise"} ELSE {"ok"}]

\* lines 126-142: the array the scaler is handed
to_scaler(features, o) == NanToNum(ApplyGen(ArrayOf(features.rows), o.gen))

\* lines 119-148
prepare_input(features, o) ==
    IF \E t \in 1..Len(features.rows) : vector_from_row(features.rows[t]).raised
    THEN [raised |-> TRUE, array |-> ArrayOf(<<>>)]
    ELSE [raised |-> FALSE,
          array |-> ApplyScaler(to_scaler(features, o), o.scaler)]

(***************************************************************************)
(* ModelAdapter.predict, explain, status                                   *)
(***************************************************************************)
\* What a model call may produce: an exception, an output whose last element
\* cannot be read as a float (a 0-d output: value[-1] raises), or a vector
\* whose last element is a float.
ModelValues == {Num(-1), Num(0), Num(1), Num(50), Num(150), NaN}
ModelOutcomes == [kind : {"raise", "scalar"}, value : {NaN}] \cup
                 [kind : {"vector"}, value : ModelValues]

\* lines 164 and 182: a value up to 1 is read as a probability
RiskOf(x) ==
    IF x.nan THEN PresentRisk(x)
    ELSE IF x.v <= 1 THEN PresentRisk(Num(x.v * 100)) ELSE PresentRisk(x)

Raised(op) == [NoResult EXCEPT !.op = op, !.raised = TRUE]

\* lines 153-177
PredictTorch(m) ==
    IF m.kind = "vector"
    THEN [op |-> "predict", raised |-> FALSE, risk |-> RiskOf(m.value),
          contributions |-> AbsentContributions, model_loaded |-> TRUE,
          message |-> message]
    ELSE [op |-> "predict", raised |-> FALSE, risk |-> AbsentRisk,
          contributions |-> AbsentContributions, model_loaded |-> TRUE,
          message |-> "predict_failed"]

\* lines 179-195: self._model.predict(array)[0]
PredictObject(m) ==
    IF m.kind = "vector"
    THEN [op |-> "predict", raised |-> FALSE, risk |-> RiskOf(m.value),
          contributions |-> AbsentContributions, model_loaded |-> TRUE,
          message |-> message]
    ELSE [op |-> "predict", raised |-> FALSE, risk |-> AbsentRisk,
          contributions |-> AbsentContributions, model_loaded |-> TRUE,
          message |-> "predict_failed"]

\* lines 197-202
PredictNoModel ==
    [op |-> "predict", raised |-> FALSE, risk |-> AbsentRisk,
     contributions |-> AbsentContributions, model_loaded |-> FALSE,
     message |-> message]

UsesTorchModel == torch_model # None /\ torch
UsesObjectModel == model_loaded /\ model = "object_with_predict"

\* the choices the environment has in the model call of one predict
CallOutcomes(prep) ==
    IF ~prep.raised /\ (UsesTorchModel \/ UsesObjectModel)
    THEN ModelOutcomes
    ELSE {[kind |-> "raise", value |-> NaN]}

\* lines 150-202: _prepare_input runs outside every try block, so what it
\* raises leaves predict; the prepared array goes to the model that is used
predict(prep, m) ==
    IF prep.raised THEN Raised("predict")
    ELSE IF UsesTorchModel THEN PredictTorch(m)
    ELSE IF UsesObjectModel THEN PredictObject(m)
    ELSE PredictNoModel

\* explain that hands out contributions once a model is loaded
explainFromModel(features) ==
    [op |-> "explain", raised |-> FALSE, risk |-> AbsentRisk,
     contributions |-> IF model_loaded
                       THEN [present |-> TRUE, map |-> [k \in {"pco2"} |-> 10]]
                       ELSE AbsentContributions,
     model_loaded |-> model_loaded, message |-> message]

\* lines 204-212: the features are not read
explain(features) ==
    [op |-> "explain", raised |-> FALSE, risk |-> AbsentRisk,
     contributions |-> AbsentContributions, model_loaded |-> model_loaded,
     message |-> message]

\* lines 102-104
status == [NoResult EXCEPT !.op = "status", !.message = message]

(***************************************************************************)
(* The calls.  A call is made on the constructed adapter (pc = "ready") and *)
(* leaves its outcome in result (pc = "returned") until the caller has     *)
(* taken it.                                                               *)
(***************************************************************************)
\* Predict that writes the failure of a model call into self._message
PredictRecordsFailure ==
    /\ pc = "ready"
    /\ pc' = "returned"
    /\ \E features \in Inputs :
         \E o \in PrepOutcomes(features) :
           LET prep == prepare_input(features, o) IN
             \E m \in CallOutcomes(prep) :
               /\ result' = predict(prep, m)
               /\ message' = IF predict(prep, m).message = "predict_failed"
                             THEN "predict_failed" ELSE message
    /\ UNCHANGED <<env, scaler, torch_model, model, gen_model, model_loaded,
                   history, patient, outside>>

Predict ==
    /\ pc = "ready"
    /\ pc' = "returned"
    /\ \E features \in Inputs :
         \E o \in PrepOutcomes(features) :
           LET prep == prepare_input(features, o) IN
             \E m \in CallOutcomes(prep) :
               result' = predict(prep, m)
    /\ UNCHANGED <<env, fields, history, patient, outside>>

Explain ==
    /\ pc = "ready"
    /\ pc' = "returned"
    /\ \E features \in SingleDicts : result' = explain(features)
    /\ UNCHANGED <<env, fields, history, patient, outside>>

Status ==
    /\ pc = "ready"
    /\ pc' = "returned"
    /\ result' = status
    /\ UNCHANGED <<env, fields, history, patient, outside>>

\* the caller takes the outcome (app.py: prediction = MODEL.predict(...),
\* model_output = MODEL.explain(...), {"model": MODEL.status}) and goes on
Return ==
    /\ pc = "returned"
    /\ pc' = "ready"
    /\ result' = NoResult
    /\ patient' = NoPatient
    /\ prepared' = NotPrepared
    /\ UNCHANGED <<env, fields, history, impl, app>>

(***************************************************************************)
(* app.py: compute_contribution, build_contributor_label and               *)
(* refresh_contributions.  Contributions are kept in tenths, the unit      *)
(* round(contribution, 1) leaves.                                          *)
(***************************************************************************)
\* Four of the feature templates (lines 140, 141, 162, 167), with the integer
\* readings the model hands in: below, inside and above the normal range.
FEATURE_TEMPLATES ==
    << [key |-> "pco2", low |-> 35, high |-> 45, base |-> 40,
        values |-> {30, 38, 50}],
       [key |-> "po2", low |-> 80, high |-> 100, base |-> 92,
        values |-> {70, 90, 120}],
       [key |-> "hr", low |-> 60, high |-> 100, base |-> 85,
        values |-> {50, 80, 130}],
       [key |-> "gcs_eye", low |-> 3, high |-> 4, base |-> 4,
        values |-> {1, 3, 4}] >>
TemplateIndex == 1..Len(FEATURE_TEMPLATES)

Max2(a, b) == IF a >= b THEN a ELSE b
Abs(a) == IF a >= 0 THEN a ELSE -a

\* lines 321-330, as an exact fraction num/den
compute_contribution(value, low, high) ==
    LET range_value == Max2(high - low, 1) IN
    IF value < low
    THEN [num |-> (low - value) * 28, den |-> range_value]
    ELSE IF value > high
    THEN [num |-> (value - high) * 28, den |-> range_value]
    ELSE [num |-> -(Max2(0, range_value - Abs(2 * value - low - high)) * 6),
          den |-> range_value]

\* round(x, 1) of the fraction x, in tenths (a tie goes to the even tenth)
Round1(x) ==
    LET n == 10 * x.num
        q == n \div x.den
        r == n - q * x.den
    IN IF 2 * r < x.den THEN q
       ELSE IF 2 * r > x.den THEN q + 1
       ELSE IF q % 2 = 0 THEN q ELSE q + 1

\* lines 333-341
build_contributor_label(name, value, low, high) ==
    IF value < low THEN <<name, "down">>
    ELSE IF value > high THEN <<name, "up">>
    ELSE <<name, "">>

\* The patients handed to refresh_contributions: every feature has readings
\* (build_readings_history makes HISTORY_POINTS of them and update_patient
\* appends before it removes), here the template's base value and a latest one.
PatientInputs ==
    {[features |-> [i \in TemplateIndex |->
                      [key |-> FEATURE_TEMPLATES[i].key,
                       readings |-> <<FEATURE_TEMPLATES[i].base, latest[i]>>,
                       normalRange |-> <<FEATURE_TEMPLATES[i].low,
                                         FEATURE_TEMPLATES[i].high>>,
                       contribution |-> 90]],
      topContributors |-> <<>>,
      source |-> [i \in TemplateIndex |-> "build"]] :
       latest \in {f \in [TemplateIndex ->
                             UNION {FEATURE_TEMPLATES[i].values :
                                      i \in TemplateIndex}] :
                     \A i \in TemplateIndex :
                       f[i] \in FEATURE_TEMPLATES[i].values}}

Latest(feature) == feature.readings[Len(feature.readings)]

\* lines 519-522: the dict handed to explain
FeatureValues(p) ==
    [i \in TemplateIndex |->
       IF Len(p.features[i].readings) > 0 THEN Latest(p.features[i]) ELSE 0]

Heuristic(feature) ==
    Round1(compute_contribution(Latest(feature), feature.normalRange[1],
                                feature.normalRange[2]))

\* lines 525-542: which value a feature's contribution is given, and where it
\* comes from: a non-empty contributions map of the model is asked first
ContributionOf(feature, out) ==
    IF Len(feature.readings) = 0
    THEN [value |-> 0, source |-> "none"]
    ELSE IF out.contributions.present /\ DOMAIN out.contributions.map # {}
            /\ feature.key \in DOMAIN out.contributions.map
    THEN [value |-> out.contributions.map[feature.key], source |-> "model"]
    ELSE [value |-> Heuristic(feature), source |-> "heuristic"]

\* lines 544-549: sorted(..., reverse=True) is stable: features of equal
\* contribution keep their order
SortedFeatures(features) ==
    LET avail == {i \in DOMAIN features : Len(features[i].readings) > 0}
        Before(i, j) ==
            \/ features[i].contribution > features[j].contribution
            \/ /\ features[i].contribution = features[j].contribution
               /\ i < j
        Rank(i) == Cardinality({j \in avail : Before(j, i)})
    IN [k \in 1..Cardinality(avail) |->
          features[CHOOSE i \in avail : Rank(i) = k - 1]]

\* lines 548-560
TopLabels(features) ==
    LET sorted_features == SortedFeatures(features)
        positive == SelectSeq(sorted_features, LAMBDA f : f.contribution > 0)
        top_features == IF Len(positive) > 0 THEN positive ELSE sorted_features
        top3 == SubSeq(top_features, 1,
                       IF Len(top_features) < 3 THEN Len(top_features) ELSE 3)
    IN [k \in 1..Len(top3) |->
          build_contributor_label(top3[k].key, Latest(top3[k]),
                                  top3[k].normalRange[1],
                                  top3[k].normalRange[2])]

\* lines 518-560
refresh_contributions(p, out) ==
    LET features ==
          [i \in DOMAIN p.features |->
             [p.features[i] EXCEPT
                !.contribution = ContributionOf(p.features[i], out).value]]
    IN [features |-> features,
        topContributors |-> TopLabels(features),
        source |-> [i \in DOMAIN p.features |->
                      ContributionOf(p.features[i], out).source]]

\* refresh_contributions is called on a patient; it calls MODEL.explain
RefreshContributions ==
    /\ pc = "ready"
    /\ pc' = "returned"
    /\ \E p \in PatientInputs :
         /\ result' = explain(FeatureValues(p))
         /\ patient' = refresh_contributions(p, explain(FeatureValues(p)))
    /\ UNCHANGED <<env, fields, history, outside>>

\* The shape of what _prepare_input is given: one row for a dict, else a row
\* per element, as wide as the rows are (a dict row has a value, or the
\* default 0.0, under every feature name).
InputShape(features) ==
    IF Len(features.rows) = 0 THEN <<0>>
    ELSE <<Len(features.rows),
           IF features.rows[1].isdict THEN NumFeatures
           ELSE Len(features.rows[1].cells)>>

\* _prepare_input is called by itself (lines 119-148) and what it returns is
\* kept
PrepareInput ==
    /\ pc = "ready"
    /\ pc' = "returned"
    /\ \E features \in Inputs \cup InfiniteDicts :
         \E o \in PrepOutcomes(features) :
           LET prep == prepare_input(features, o) IN
             prepared' =
               [called |-> TRUE,
                raised |-> prep.raised,
                input_shape |-> InputShape(features),
                array |-> prep.array,
                input |-> IF prep.raised THEN NotPrepared.input
                          ELSE ArrayOf(features.rows),
                generated |-> o.gen,
                to_scaler |-> IF prep.raised THEN NotPrepared.to_scaler
                              ELSE to_scaler(features, o)]
    /\ UNCHANGED <<env, fields, history, result, patient, impl, app>>

Next == Construct \/ Predict \/ Explain \/ Status \/ Return

Spec == Init /\ [][Next]_vars

\* The adapter as refresh_contributions uses it: built, then asked to explain.
NextContrib == Construct \/ Explain \/ Status \/ RefreshContributions \/ Return

SpecContrib == Init /\ [][NextContrib]_vars

\* The adapter as a caller of _prepare_input sees it.
NextPrepare == Construct \/ PrepareInput \/ Return

SpecPrepare == Init /\ [][NextPrepare]_vars
(***************************************************************************)
(* model_impl.py: CSDI_base.  The buffers alpha_hat and alpha are float32  *)
(* tensors.  The model keeps a binary floating-point format of the same    *)
(* kind with fewer bits: MantissaBits significant bits, and 2^-FracBits    *)
(* as its smallest positive value; a float is written as a whole number    *)
(* of that smallest value.  What numpy computes in float64 (the betas) is  *)
(* kept as an exact fraction.                                              *)
(***************************************************************************)
\* most diffusion steps (num_steps)
MaxSteps == 3
\* most samples asked of impute (n_samples)
MaxSamples == 2
\* largest size of one dimension of a tensor
MaxDim == 2
\* the roots of beta_start and beta_end are multiples of 1/RootDenominator
RootDenominator == 4
\* significant bits of a float (24 in float32)
MantissaBits == 3
\* the smallest positive float is 2^-FracBits (2^-149 in float32)
FracBits == 3

RECURSIVE Pow2(_)
Pow2(n) == IF n = 0 THEN 1 ELSE 2 * Pow2(n - 1)
\* the number of bits of a natural number
RECURSIVE BitLen(_)
BitLen(n) == IF n = 0 THEN 0 ELSE 1 + BitLen(n \div 2)
\* the float 1.0
One == Pow2(FracBits)

\* num/den rounded to the nearest whole number, a tie to the even one
RoundHalfEven(num, den) ==
    LET q == num \div den
        r == num - q * den
    IN IF 2 * r < den THEN q
       ELSE IF 2 * r > den THEN q + 1
       ELSE IF q % 2 = 0 THEN q ELSE q + 1

\* the float nearest to num/den: a value of more than MantissaBits bits
\* loses its low bits
RoundF(num, den) ==
    LET len == BitLen(num \div den)
        quantum == IF len > MantissaBits THEN Pow2(len - MantissaBits) ELSE 1
    IN quantum * RoundHalfEven(num, den * quantum)

\* config["diffusion"]: num_steps >= 1 and 0 < beta_start < beta_end < 1,
\* given by the roots of the two betas, in units of 1/RootDenominator
Configs ==
    {c \in [num_steps : 1..MaxSteps,
            root_start : 1..(RootDenominator - 1),
            root_end : 1..(RootDenominator - 1)] :
       c.root_start < c.root_end}

\* lines 166-170: np.linspace(beta_start ** 0.5, beta_end ** 0.5, num_steps),
\* point i (from 0); a single point is the start
Root(c, i) ==
    LET d == IF c.num_steps = 1 THEN 1 ELSE c.num_steps - 1
    IN [num |-> c.root_start * d + i * (c.root_end - c.root_start),
        den |-> RootDenominator * d]

\* lines 165-172: beta = linspace(...) ** 2
Beta(c, i) ==
    [num |-> Root(c, i).num * Root(c, i).num,
     den |-> Root(c, i).den * Root(c, i).den]

\* line 173: torch.tensor(1 - beta, dtype=torch.float32)
AlphaHat(c) ==
    [i \in 1..c.num_steps |->
       RoundF((Beta(c, i - 1).den - Beta(c, i - 1).num) * One,
              Beta(c, i - 1).den)]

\* line 174: torch.cumprod, every product rounded to a float
RECURSIVE CumProd(_)
CumProd(seq) ==
    IF Len(seq) <= 1 THEN seq
    ELSE LET front == CumProd(SubSeq(seq, 1, Len(seq) - 1))
         IN Append(front, RoundF(front[Len(front)] * seq[Len(seq)], One))

\* A CSDI_base is about to be built from a configuration.
InitSampler ==
    /\ torch = FALSE
    /\ joblib = FALSE
    /\ scaler_exists = FALSE
    /\ model_exists = FALSE
    /\ gen_exists = FALSE
    /\ pc = "scaler"
    /\ scaler = None
    /\ torch_model = None
    /\ model = None
    /\ gen_model = None
    /\ model_loaded = FALSE
    /\ message = "stub"
    /\ attempts = <<>>
    /\ failed = {}
    /\ result = NoResult
    /\ patient = NoPatient
    /\ prepared = NotPrepared
    /\ config \in Configs
    /\ num_steps = 0
    /\ alpha_hat = <<>>
    /\ alpha = <<>>
    /\ observed_data = NoTensor
    /\ cond_mask = <<>>
    /\ n_samples = 0
    /\ cand = NoCandidate
    /\ cur_t = 0
    /\ sample = 0
    /\ imputed_samples = <<>>
    /\ denoised = <<>>
    /\ imputed = NoTensor
    /\ spc = "new"
    /\ AppIdle

\* lines 164-174: CSDI_base.__init__ builds the schedule
InitSchedule ==
    /\ spc = "new"
    /\ spc' = "built"
    /\ num_steps' = config.num_steps
    /\ alpha_hat' = AlphaHat(config)
    /\ alpha' = CumProd(AlphaHat(config))
    /\ UNCHANGED <<service, config, run>>

\* observed_data has the shape [batch, features, length] (line 195)
Shapes == [1..3 -> 1..MaxDim]
\* cond_mask: the shape of observed_data, that shape with one dimension
\* changed, or that shape without its batch dimension
MaskShapes(shape) ==
    {shape} \cup {[shape EXCEPT ![k] = d] : k \in 1..3, d \in 1..MaxDim}
            \cup {Tail(shape)}

\* Broadcasting of two shapes of at most three dimensions: the shapes are
\* aligned at the last dimension; two sizes go together when they are equal
\* or one of them is 1.
Pad(shape) ==
    [k \in 1..3 |->
       IF k <= 3 - Len(shape) THEN 1 ELSE shape[k - (3 - Len(shape))]]
Compatible(a, b) ==
    \A k \in 1..3 : Pad(a)[k] = Pad(b)[k] \/ Pad(a)[k] = 1 \/ Pad(b)[k] = 1
Broadcast(a, b) ==
    [k \in 1..3 |-> IF Pad(a)[k] = 1 THEN Pad(b)[k] ELSE Pad(a)[k]]

\* lines 195-196: impute is entered
ImputeEnter ==
    /\ spc = "built"
    /\ spc' = "samples"
    /\ \E shape \in Shapes :
         /\ observed_data' = Tensor(shape, FALSE)
         /\ cond_mask' \in MaskShapes(shape)
    /\ n_samples' \in 1..MaxSamples
    /\ sample' = 0
    /\ imputed_samples' = <<>>
    /\ UNCHANGED <<service, schedule, cand, cur_t, denoised, imputed>>

\* lines 197-199: the next sample starts from torch.randn_like(observed_data)
DrawNoise ==
    /\ spc = "samples"
    /\ sample < n_samples
    /\ spc' = "steps"
    /\ sample' = sample + 1
    /\ cand' = Candidate(observed_data.shape, FALSE, "noise")
    /\ cur_t' = num_steps - 1
    /\ UNCHANGED <<service, schedule, observed_data, cond_mask, n_samples,
                   imputed_samples, denoised, imputed>>

\* lines 200-206: d_in is built from cond_mask * observed_data and
\* (1 - cond_mask) * x; each product broadcasts or raises, and torch.cat
\* raises unless the two products have one shape
InputRaises ==
    \/ ~Compatible(cond_mask, observed_data.shape)
    \/ ~Compatible(cond_mask, cand.shape)
    \/ Broadcast(cond_mask, observed_data.shape)
         # Broadcast(cond_mask, cand.shape)
InputOfDenoiser ==
    Tensor(Broadcast(cond_mask, cand.shape), observed_data.nan \/ cand.nan)

\* lines 207-212: the denoiser raises (side_info may not fit d_in), or returns
\* a tensor [batch, features, length] of d_in's sizes; a NaN it is given
\* stays in what it returns
DenoiserOutcomes(d_in) ==
    {[kind |-> "raise", pred |-> NoTensor],
     [kind |-> "tensor", pred |-> d_in]}

\* noise added at every step (line 216 without its test)
AddsNoiseAlways(step) == step >= 0

\* line 216: if t > 0
AddsNoise(step) == step > 0

\* lines 213-214: c2 = (1 - alpha_hat[t]) / (1 - alpha[t]) ** 0.5 is 0/0
\* when alpha[t] is 1
CoefficientIsNaN(step) == alpha[step + 1] = One

\* lines 200-221: one pass of the inner loop, for the step cur_t
ReverseStep ==
    /\ spc = "steps"
    /\ cur_t >= 0
    /\ IF InputRaises
       THEN /\ spc' = "raised"
            /\ UNCHANGED <<cand, cur_t, denoised>>
       ELSE \E out \in DenoiserOutcomes(InputOfDenoiser) :
              IF out.kind = "raise"
              THEN /\ spc' = "raised"
                   /\ UNCHANGED <<cand, cur_t, denoised>>
              ELSE /\ cand' = Candidate(
                                Broadcast(cand.shape, out.pred.shape),
                                cand.nan \/ out.pred.nan
                                  \/ CoefficientIsNaN(cur_t),
                                "update")
                   /\ denoised' = Append(denoised,
                                         [sample |-> sample, t |-> cur_t,
                                          from |-> cand.origin,
                                          noised |-> AddsNoise(cur_t)])
                   /\ cur_t' = cur_t - 1
                   /\ UNCHANGED spc
    /\ UNCHANGED <<service, schedule, observed_data, cond_mask, n_samples,
                   sample, imputed_samples, imputed>>

\* line 222: imputed_samples.append(x), after the last step
AppendSample ==
    /\ spc = "steps"
    /\ cur_t < 0
    /\ spc' = "samples"
    /\ imputed_samples' = Append(imputed_samples, Tensor(cand.shape, cand.nan))
    /\ UNCHANGED <<service, schedule, observed_data, cond_mask, n_samples,
                   cand, cur_t, sample, denoised, imputed>>

\* line 223: torch.stack(imputed_samples, dim=1) of tensors of one shape
Stack(seq) ==
    Tensor(<<seq[1].shape[1], Len(seq), seq[1].shape[2], seq[1].shape[3]>>,
           \E k \in 1..Len(seq) : seq[k].nan)
\* line 258: samples.mean(dim=1)
MeanDim1(tensor) ==
    Tensor(<<tensor.shape[1], tensor.shape[3], tensor.shape[4]>>, tensor.nan)

\* lines 223 and 257-258: the samples are stacked and averaged
StackMean ==
    /\ spc = "samples"
    /\ sample = n_samples
    /\ spc' = "done"
    /\ imputed' = MeanDim1(Stack(imputed_samples))
    /\ UNCHANGED <<service, schedule, observed_data, cond_mask, n_samples,
                   cand, cur_t, sample, imputed_samples, denoised>>

NextSampler ==
    InitSchedule \/ ImputeEnter \/ DrawNoise \/ ReverseStep \/ AppendSample
      \/ StackMean

SpecSampler == InitSampler /\ [][NextSampler]_vars

(***************************************************************************)
(* app.py: the updater.  start_updater creates one task that runs loop();  *)
(* a pass of loop() calls update_patient for every patient and then awaits *)
(* asyncio.sleep(1).  The event loop runs one task at a time and a task    *)
(* keeps it until it awaits.                                               *)
(***************************************************************************)
\* patients in PATIENTS (104 in app.py)
NumPatients == 2
\* length of the reading and risk histories (73 in app.py)
HISTORY_POINTS == 2
\* how many sleep intervals of wall-clock time the model lets pass
MaxTicks == 2

\* a history that is never shortened
KeepAll(seq) == seq
\* lines 625-626 and 637-638: the oldest entry goes once the list is longer
\* than HISTORY_POINTS
Window(seq) == IF Len(seq) > HISTORY_POINTS THEN Tail(seq) ELSE seq

\* A patient as create_patient leaves it: HISTORY_POINTS readings of every
\* feature and HISTORY_POINTS risk entries, one interval apart and the last
\* at the time of the import (lines 365-366 and 375-376); update_patient and
\* build_model_sequence also take a patient without features.
NewPatient(has_features) ==
    [features |-> has_features,
     readings |-> IF has_features
                  THEN [k \in 1..HISTORY_POINTS |-> k - HISTORY_POINTS]
                  ELSE <<>>,
     riskHistory |-> [k \in 1..HISTORY_POINTS |->
                        [timestamp |-> k - HISTORY_POINTS,
                         source |-> "build"]]]
PatientLists ==
    {[i \in 1..NumPatients |-> NewPatient(f[i])] :
       f \in [1..NumPatients -> BOOLEAN]}

\* app.py is about to be imported: MODEL is built (line 281), PATIENTS exists
\* (line 613), then the startup event runs.  No scaler and no generator file
\* here; they play no part in a pass.
InitUpdater ==
    /\ torch \in BOOLEAN
    /\ joblib = TRUE
    /\ scaler_exists = FALSE
    /\ model_exists \in BOOLEAN
    /\ gen_exists = FALSE
    /\ pc = "scaler"
    /\ scaler = None
    /\ torch_model = None
    /\ model = None
    /\ gen_model = None
    /\ model_loaded = FALSE
    /\ message = "stub"
    /\ attempts = <<>>
    /\ failed = {}
    /\ result = NoResult
    /\ patient = NoPatient
    /\ prepared = NotPrepared
    /\ ImplIdle
    /\ PATIENTS \in PatientLists
    /\ upc = "import"
    /\ index = 0
    /\ now = 0
    /\ clock = 0
    /\ wake_at = 0
    /\ running = "none"
    /\ overruns = 0
    /\ inflight = [i \in 1..NumPatients |-> 0]
    /\ visits = <<>>
    /\ appended = [i \in 1..NumPatients |-> 0]
    /\ released = FALSE
    /\ served = NoResponse
    /\ BuilderIdle
    /\ ChartIdle

InPass == upc \in {"pass", "updating"}

\* lines 652-664: the startup event creates the task
StartUpdater ==
    /\ upc = "import"
    /\ pc = "ready"
    /\ upc' = "scheduled"
    /\ UNCHANGED <<library, builder, charting, PATIENTS, index, now, clock, wake_at, running,
                   overruns, inflight, visits, appended, released, served>>

\* lines 659-660: the task is given the event loop and a pass begins: at
\* first, and whenever the sleep is over
BeginPass ==
    /\ \/ upc = "scheduled"
       \/ upc = "sleeping" /\ clock >= wake_at
    /\ running = "none"
    /\ upc' = "pass"
    /\ running' = "updater"
    /\ index' = 1
    /\ visits' = <<>>
    /\ appended' = [i \in 1..NumPatients |-> 0]
    /\ released' = FALSE
    /\ UNCHANGED <<library, builder, charting, PATIENTS, now, clock, wake_at, overruns, inflight,
                   served>>

\* a call of update_patient that does not wait for the one under way
CanCallWhileUpdating == upc \in {"pass", "updating"}

\* line 661: update_patient is called in the for loop, one call after the
\* other
CanCall == upc = "pass"

\* lines 616-628: update_patient is entered: a reading is appended to every
\* feature, and the model sequence is built
UpdateCall ==
    /\ CanCall
    /\ index <= NumPatients
    /\ upc' = "updating"
    /\ now' = clock
    /\ PATIENTS' = [PATIENTS EXCEPT ![index].readings =
                      IF PATIENTS[index].features
                      THEN Window(Append(@, clock)) ELSE @]
    /\ inflight' = [inflight EXCEPT ![index] = @ + 1]
    /\ visits' = Append(visits, index)
    /\ UNCHANGED <<library, builder, charting, index, clock, wake_at, running, overruns,
                   appended, served>>
    /\ released' = (released \/ running' # "updater")

\* lines 500-513 and 472-473: build_model_sequence returns rows that are
\* lists of floats, or [] for a patient without features
ModelSequence(p) ==
    [single |-> FALSE,
     rows |-> IF p.features
              THEN [t \in 1..Max2(MODEL_SEQ_LEN, 1) |->
                      [isdict |-> FALSE,
                       cells |-> [n \in 1..NumFeatures |-> "num"]]]
              ELSE <<>>]

\* lines 629-649: MODEL.predict is called; what it raises leaves
\* update_patient and loop(), and the task ends; else a risk entry is
\* appended, from the prediction or from the last risk, and the for loop goes
\* on
UpdateReturn ==
    /\ upc = "updating"
    /\ \E o \in PrepOutcomes(ModelSequence(PATIENTS[index])) :
         LET prep == prepare_input(ModelSequence(PATIENTS[index]), o) IN
           \E m \in CallOutcomes(prep) :
             IF predict(prep, m).raised
             THEN /\ upc' = "dead"
                  /\ running' = "none"
                  /\ UNCHANGED <<PATIENTS, index, appended>>
             ELSE /\ upc' = "pass"
                  /\ PATIENTS' =
                       [PATIENTS EXCEPT ![index].riskHistory =
                          Window(Append(@,
                            [timestamp |-> now,
                             source |-> IF predict(prep, m).risk.present
                                        THEN "model" ELSE "fallback"]))]
                  /\ appended' = [appended EXCEPT ![index] = @ + 1]
                  /\ index' = index + 1
                  /\ UNCHANGED running
    /\ inflight' = [inflight EXCEPT ![index] = @ - 1]
    /\ released' = (released \/ running' # "updater")
    /\ UNCHANGED <<library, builder, charting, now, clock, wake_at, overruns, visits, served>>

\* line 662: after the last patient the task awaits asyncio.sleep(1)
EndPass ==
    /\ upc = "pass"
    /\ index > NumPatients
    /\ upc' = "sleeping"
    /\ running' = "none"
    /\ wake_at' = clock + 1
    /\ UNCHANGED <<library, builder, charting, PATIENTS, index, now, clock, overruns, inflight,
                   visits, appended, released, served>>

\* One sleep interval (line 662: one second) of wall-clock time ends, during
\* a sleep or while a pass is running.
Elapse ==
    /\ upc \in {"pass", "updating", "sleeping"}
    /\ clock < MaxTicks
    /\ clock' = clock + 1
    /\ overruns' = IF InPass THEN overruns + 1 ELSE overruns
    /\ UNCHANGED <<library, builder, charting, PATIENTS, upc, index, now, wake_at, running,
                   inflight, visits, appended, released, served>>

\* lines 680-682: GET /api/status; the response goes out through the event
\* loop
GetStatus ==
    /\ upc \notin {"idle", "import"}
    /\ running = "none"
    /\ served' = [kind |-> "status", message |-> status.message,
                  during_pass |-> InPass, half |-> FALSE, uneven |-> FALSE]
    /\ UNCHANGED <<library, builder, charting, PATIENTS, upc, index, now, clock, wake_at,
                   running, overruns, inflight, visits, appended, released>>

\* lines 809-813: the generator of GET /api/stream/patients dumps PATIENTS
\* and sends its next event.  Of the payload the model keeps whether it
\* shows a patient whose call of update_patient was entered and has not
\* appended its risk entry (half), and whether it shows patients with
\* different numbers of appended entries (uneven).
StreamEvent ==
    /\ upc \notin {"idle", "import"}
    /\ running = "none"
    /\ served' = [kind |-> "event", message |-> "", during_pass |-> InPass,
                  half |-> \E k \in 1..Len(visits) : appended[visits[k]] = 0,
                  uneven |-> \E i, j \in 1..NumPatients :
                               appended[i] # appended[j]]
    /\ UNCHANGED <<library, builder, charting, PATIENTS, upc, index, now, clock, wake_at,
                   running, overruns, inflight, visits, appended, released>>

NextUpdater ==
    Construct \/ StartUpdater \/ BeginPass \/ UpdateCall \/ UpdateReturn
      \/ EndPass \/ Elapse \/ GetStatus \/ StreamEvent

SpecUpdater == InitUpdater /\ [][NextUpdater]_vars

(***************************************************************************)
(* app.py: build_model_sequence.  Times are whole numbers of one unit; a   *)
(* reading carries its time as the text isoformat_utc wrote.               *)
(***************************************************************************)
\* the latest time a reading or a call can have
MaxTime == 3
\* line 500: the width of a row
ROW_WIDTH == 36

\* lines 285-318
MODEL_COLUMN_INDEX ==
    [pco2 |-> 3, po2 |-> 4, alt |-> 5, albumin |-> 6, alp |-> 7, ast |-> 8,
     bicarb |-> 9, bili |-> 10, calcium |-> 11, chloride |-> 12,
     creatinine |-> 13, glucose |-> 14, potassium |-> 15, protein |-> 16,
     sodium |-> 17, bun |-> 18, hematocrit |-> 19, hemoglobin |-> 20,
     inr |-> 21, platelet |-> 22, rbc |-> 23, wbc |-> 24, hr |-> 25,
     sbp |-> 26, dbp |-> 27, rr |-> 28, spo2 |-> 29, gcs_eye |-> 30,
     temp |-> 31, fio2 |-> 32, gcs_verbal |-> 33, gcs_motor |-> 34]

\* lines 131-132: the text of a time, in UTC with the suffix Z
isoformat_utc(value) == [text |-> value, zone |-> "Z"]
\* lines 135-136: Z is read as +00:00 and the time is taken back to UTC
parse_iso_utc(value) ==
    IF value.zone = "Z" THEN value.text ELSE value.text - value.zone

\* The first and the last of the feature templates (lines 140 and 171); every
\* patient holds one feature for each template, in this order.
SequenceKeys == <<"pco2", "gcs_motor">>
\* the values build_reading gives the readings
ReadingValues == {1, 2}
\* line 573 and line 574
Ages == {18, 90}
Sexes == {"M", "F"}
\* MODEL_INTERVAL_MINUTES, in time units
Intervals == 1..(MaxTime - 1)
\* The times of a patient's readings: build_features gives all features the
\* same times (line 407), update_patient appends the same now to all of them
\* (lines 619-626), and time does not go back.
Stamps ==
    {s \in [1..HISTORY_POINTS -> 0..MaxTime] :
       \A i \in 1..(HISTORY_POINTS - 1) : s[i] <= s[i + 1]}
\* A patient as create_patient and update_patient leave it, and a patient
\* without features.
Subjects ==
    {[age |-> a, sex |-> x,
      features |->
        [k \in 1..Len(SequenceKeys) |->
           [key |-> SequenceKeys[k],
            readings |-> [i \in 1..HISTORY_POINTS |->
                            [timestamp |-> isoformat_utc(s[i]),
                             value |-> v[k][i]]]]]] :
       a \in Ages, x \in Sexes, s \in Stamps,
       v \in [1..Len(SequenceKeys) -> [1..HISTORY_POINTS -> ReadingValues]]}
    \cup {[age |-> a, sex |-> x, features |-> <<>>] : a \in Ages, x \in Sexes}

\* the time of the last reading a patient holds
LastStamp(p) ==
    IF p.features = <<>> THEN 0
    ELSE parse_iso_utc(p.features[1].readings[HISTORY_POINTS].timestamp)

\* app.py has been imported with some MODEL_SEQ_LEN and
\* MODEL_INTERVAL_MINUTES in the environment, and build_model_sequence is
\* about to be called with a patient.
InitSequence ==
    /\ torch = TRUE
    /\ joblib = TRUE
    /\ scaler_exists = FALSE
    /\ model_exists = FALSE
    /\ gen_exists = FALSE
    /\ pc = "scaler"
    /\ scaler = None
    /\ torch_model = None
    /\ model = None
    /\ gen_model = None
    /\ model_loaded = FALSE
    /\ message = "stub"
    /\ attempts = <<>>
    /\ failed = {}
    /\ result = NoResult
    /\ patient = NoPatient
    /\ prepared = NotPrepared
    /\ ImplIdle
    /\ PATIENTS = <<>>
    /\ upc = "idle"
    /\ index = 0
    /\ now = 0
    /\ clock = 0
    /\ wake_at = 0
    /\ running = "none"
    /\ overruns = 0
    /\ inflight = <<>>
    /\ visits = <<>>
    /\ appended = <<>>
    /\ released = FALSE
    /\ served = NoResponse
    /\ seq_len \in 0..MODEL_SEQ_LEN
    /\ interval \in Intervals
    /\ subject \in Subjects
    /\ end_time = 0
    /\ sequence = <<>>
    /\ bpc = "idle"
    /\ ChartIdle

\* lines 478-481: the target times, oldest first; the last is end_time
Timeline(seq_length, end) ==
    [idx \in 1..seq_length |-> end - interval * (seq_length - idx)]

\* lines 489-491: a reading as the pair (timestamp, value); float() of a
\* number a reading holds is that number
ReadingPair(reading) ==
    [ts |-> parse_iso_utc(reading.timestamp), val |-> Num(reading.value)]

\* line 492: list.sort by timestamp is stable; the pair is put after the pairs
\* that are not later than it
InsertByTime(pair, sorted) ==
    LET k == Cardinality({i \in 1..Len(sorted) : sorted[i].ts <= pair.ts})
    IN SubSeq(sorted, 1, k) \o <<pair>> \o SubSeq(sorted, k + 1, Len(sorted))
RECURSIVE SortByTime(_)
SortByTime(pairs) ==
    IF pairs = <<>> THEN <<>>
    ELSE InsertByTime(pairs[Len(pairs)],
                      SortByTime(SubSeq(pairs, 1, Len(pairs) - 1)))

\* lines 484-493: feature_readings, kept as the list of its items in the
\* order of insertion; a feature without a key is left out (the templates
\* give every feature its own key, so no item is replaced)
FeatureReadings(features) ==
    LET kept == SelectSeq(features, LAMBDA f : f.key # "")
    IN [k \in 1..Len(kept) |->
          [key |-> kept[k].key,
           readings |-> SortByTime([i \in 1..Len(kept[k].readings) |->
                                      ReadingPair(kept[k].readings[i])])]]

\* a reading strictly earlier than the target time
Before(ts, target_time) == ts < target_time
\* the test of line 509
AtOrBefore(ts, target_time) == ts <= target_time

\* lines 507-511: the readings are walked from the latest; the first that is
\* not later than the target time gives the value, and NaN stays when there
\* is none
RECURSIVE LookBack(_, _)
LookBack(readings, target_time) ==
    IF readings = <<>> THEN NaN
    ELSE IF AtOrBefore(readings[Len(readings)].ts, target_time)
         THEN readings[Len(readings)].val
         ELSE LookBack(SubSeq(readings, 1, Len(readings) - 1), target_time)

\* a Python list is indexed from 0
GetItem(list, i) == list[i + 1]
SetItem(list, i, value) == [list EXCEPT ![i + 1] = value]

\* lines 503-512: the items of feature_readings are written into the row; a
\* key without a column and a feature without readings are passed over
RECURSIVE FillRow(_, _, _)
FillRow(row, items, target_time) ==
    IF items = <<>> THEN row
    ELSE LET item == Head(items)
             known == item.key \in DOMAIN MODEL_COLUMN_INDEX
         IN IF ~known \/ item.readings = <<>>
            THEN FillRow(row, Tail(items), target_time)
            ELSE FillRow(SetItem(row, MODEL_COLUMN_INDEX[item.key] - 1,
                                 LookBack(item.readings, target_time)),
                         Tail(items), target_time)

\* lines 496-497
SexValue(p) == Num(IF p.sex = "M" THEN 1 ELSE 0)
AgeValue(p) == Num(p.age)

\* lines 470-515
build_model_sequence(p, end) ==
    IF p.features = <<>> THEN <<>>
    ELSE LET seq_length == Max2(seq_len, 1)
             timeline == Timeline(seq_length, end)
             feature_readings == FeatureReadings(p.features)
         IN [idx \in 1..seq_length |->
               FillRow(SetItem(SetItem([c \in 1..ROW_WIDTH |-> NaN],
                                       0, AgeValue(p)),
                               1, SexValue(p)),
                       feature_readings, timeline[idx])]

\* build_model_sequence is called and returns; now_utc() (line 477) is not
\* earlier than the patient's last reading
BuildModelSequence ==
    /\ bpc = "idle"
    /\ bpc' = "built"
    /\ \E end \in LastStamp(subject)..MaxTime :
         /\ end_time' = end
         /\ sequence' = build_model_sequence(subject, end)
    /\ UNCHANGED <<library, updater, charting, seq_len, interval, subject>>

\* lines 598 and 628: the caller has taken the sequence
BuildReturn ==
    /\ bpc = "built"
    /\ bpc' = "idle"
    /\ sequence' = <<>>
    /\ end_time' = 0
    /\ UNCHANGED <<library, updater, charting, seq_len, interval, subject>>

NextSequence == BuildModelSequence \/ BuildReturn

SpecSequence == InitSequence /\ [][NextSequence]_vars

(***************************************************************************)
(* app.py: the risks of one patient.  create_patient builds riskHistory    *)
(* around current_risk and takes the model's risk when there is one;       *)
(* update_patient appends the next risk.  Risks are whole numbers here, as *)
(* int() leaves them.                                                      *)
(***************************************************************************)
\* lines 123-124: max(min_value, min(max_value, value)); min(max_value, NaN)
\* is max_value, since no comparison with NaN is true
clamp(value, min_value, max_value) ==
    IF value.nan THEN Max2(min_value, max_value)
    ELSE Max2(min_value, IF value.v < max_value THEN value.v ELSE max_value)

\* lines 373-384: the entry of history position k is current_risk moved by a
\* random amount (and, for the older entries, by the trend), clamped
build_risk_history(current_risk, noise) ==
    [k \in 1..HISTORY_POINTS |-> clamp(Num(current_risk + noise[k]), 0, 100)]

\* the adapter is built as for the updater; create_patient has not run
InitRisk ==
    /\ torch \in BOOLEAN
    /\ joblib = TRUE
    /\ scaler_exists = FALSE
    /\ model_exists \in BOOLEAN
    /\ gen_exists = FALSE
    /\ pc = "scaler"
    /\ scaler = None
    /\ torch_model = None
    /\ model = None
    /\ gen_model = None
    /\ model_loaded = FALSE
    /\ message = "stub"
    /\ attempts = <<>>
    /\ failed = {}
    /\ result = NoResult
    /\ patient = NoPatient
    /\ prepared = NotPrepared
    /\ ImplIdle
    /\ PATIENTS = <<>>
    /\ upc = "idle"
    /\ index = 0
    /\ now = 0
    /\ clock = 0
    /\ wake_at = 0
    /\ running = "none"
    /\ overruns = 0
    /\ inflight = <<>>
    /\ visits = <<>>
    /\ appended = <<>>
    /\ released = FALSE
    /\ served = NoResponse
    /\ BuilderIdle
    /\ chart = NoChart
    /\ rpc = "import"

\* lines 563-610: current_risk is the profile's risk moved by a jitter and
\* clamped to 5..98; riskHistory is built around it; when there is a model
\* sequence predict is called, what it raises leaves create_patient, and a
\* risk it returns is written to currentRisk and to the last entry
CreatePatient ==
    /\ rpc = "import"
    /\ pc = "ready"
    /\ \E has_features \in BOOLEAN, current_risk \in {5, 45, 98},
          noise \in [1..HISTORY_POINTS -> {-1, 0, 1}] :
         LET built == [features |-> has_features,
                       currentRisk |-> current_risk,
                       riskHistory |-> build_risk_history(current_risk, noise),
                       updated |-> FALSE]
         IN IF ModelSequence(built).rows = <<>>
            THEN chart' = built /\ rpc' = "created"
            ELSE \E o \in PrepOutcomes(ModelSequence(built)) :
                   LET prep == prepare_input(ModelSequence(built), o) IN
                     \E m \in CallOutcomes(prep) :
                       LET prediction == predict(prep, m) IN
                       IF prediction.raised
                       THEN chart' = NoChart /\ rpc' = "failed"
                       ELSE /\ rpc' = "created"
                            /\ chart' =
                                 IF prediction.risk.present
                                 THEN [built EXCEPT
                                         !.currentRisk =
                                            clamp(prediction.risk, 0, 100),
                                         !.riskHistory[HISTORY_POINTS] =
                                            clamp(prediction.risk, 0, 100)]
                                 ELSE built
    /\ UNCHANGED <<library, updater, builder>>

\* lines 616-649: the risk of the prediction, or the last risk moved by a
\* random amount, is appended to riskHistory and written to currentRisk;
\* what predict raises leaves update_patient before either is written
UpdatePatient ==
    /\ rpc = "created"
    /\ \E o \in PrepOutcomes(ModelSequence(chart)) :
         LET prep == prepare_input(ModelSequence(chart), o) IN
           \E m \in CallOutcomes(prep), step \in {-4, 4} :
             LET prediction == predict(prep, m)
                 last_risk == chart.riskHistory[Len(chart.riskHistory)]
                 risk_next == IF prediction.risk.present
                              THEN clamp(prediction.risk, 0, 100)
                              ELSE clamp(Num(last_risk + step), 0, 100)
             IN IF prediction.raised
                THEN UNCHANGED chart
                ELSE chart' = [chart EXCEPT
                                 !.riskHistory = Window(Append(@, risk_next)),
                                 !.currentRisk = risk_next,
                                 !.updated = TRUE]
    /\ UNCHANGED <<library, updater, builder, rpc>>

NextRisk == Construct \/ CreatePatient \/ UpdatePatient

SpecRisk == InitRisk /\ [][NextRisk]_vars

(***************************************************************************)
(* The claims.                                                             *)
(***************************************************************************)
\* the constructor has returned
Constructed == pc \in {"ready", "returned"}
Last(seq) == seq[Len(seq)]
LoadedMessages == {"loaded_jit", "loaded_nn", "loaded_obj"}
FailureMessages == {"torch_missing", "load_failed", "scaler_load_failed"}

\* C1: predict and explain never raise, whatever the adapter state and the
\* input; a failure becomes a result with the risk absent and a message that
\* tells the failure.
C1_PredictExplainNeverRaise ==
    result.op \in {"predict", "explain"} =>
      /\ ~result.raised
      /\ result.message = "predict_failed" => ~result.risk.present

\* C2: a risk that predict returns lies in [0,100].
C2_PresentRiskInRange ==
    (result.op = "predict" /\ result.risk.present) =>
      /\ ~result.risk.nan
      /\ 0 <= result.risk.v
      /\ result.risk.v <= 100

\* C3: with torch absent at construction, every call of predict returns a
\* result with the risk absent and model_loaded false.
C3_NoTorchPredictAbsent ==
    (~torch /\ result.op = "predict") =>
      /\ ~result.raised
      /\ ~result.risk.present
      /\ ~result.model_loaded

\* (C3, for the calls that do return: the risk is absent and model_loaded is
\* false.)
C3_NoTorchReturnedAbsent ==
    (~torch /\ result.op = "predict" /\ ~result.raised) =>
      (~result.risk.present /\ ~result.model_loaded)

\* C4: an adapter whose loaded flag is false returns an absent risk from
\* every call of predict that returns, whatever construction path led there.
C4_NotLoadedPredictAbsent ==
    (Constructed /\ ~model_loaded /\ result.op = "predict"
       /\ ~result.raised) =>
      ~result.risk.present

\* C5: built with an invalid weight path (no file at the path, or a file
\* every load strategy failed on), the adapter is not loaded, its status
\* message holds a failure marker, and predict returns no risk.
InvalidWeightPath ==
    \/ ~model_exists
    \/ torch /\ model_exists /\ {"jit", "nn"} \subseteq failed
       /\ ~model_loaded
C5_InvalidPathReported ==
    (Constructed /\ InvalidWeightPath) =>
      /\ ~model_loaded
      /\ message \in FailureMessages
      /\ (result.op = "predict" /\ ~result.raised) => ~result.risk.present

\* C6: the load strategies are attempted in the order jit, nn, obj; a later
\* one only after every earlier one failed; the first that succeeds makes the
\* adapter loaded, names itself in the message, and is the last one attempted.
C6_StrategyOrder ==
    /\ Len(attempts) <= Len(Strategies)
    /\ attempts = SubSeq(Strategies, 1, Len(attempts))
    /\ \A k \in 1..(Len(attempts) - 1) : attempts[k] \in failed
    /\ model_loaded =>
         /\ attempts # <<>>
         /\ Last(attempts) \notin failed
         /\ message = CASE Last(attempts) = "jit" -> "loaded_jit"
                        [] Last(attempts) = "nn" -> "loaded_nn"
                        [] OTHER -> "loaded_obj"
    /\ (Constructed /\ torch /\ model_exists) =>
         /\ attempts # <<>>
         /\ ~model_loaded => \A k \in 1..Len(attempts) : attempts[k] \in failed
\* the third strategy won after the first two failed
C6_Witness ==
    /\ pc = "ready"
    /\ attempts = Strategies
    /\ failed = {"jit", "nn"}
    /\ model_loaded

\* C7, as stated: torch or joblib absent at construction leaves the adapter
\* not loaded, with no load strategy attempted.
C7_Original ==
    (Constructed /\ (~torch \/ ~joblib)) =>
      (~model_loaded /\ attempts = <<>>)
\* C7, amended: torch absent at construction leaves the adapter not loaded,
\* with no load strategy attempted; with torch present and the weight file
\* there a load is attempted whether or not joblib was imported.
C7_TorchAbsentNoLoad ==
    /\ (Constructed /\ ~torch) => (~model_loaded /\ attempts = <<>>)
    /\ (Constructed /\ torch /\ model_exists) => attempts # <<>>
C7_Witness ==
    /\ pc = "ready"
    /\ ~torch
    /\ joblib
    /\ model_exists
    /\ message = "torch_missing"

\* C8: after construction the message tells the outcome: the strategy used
\* when the adapter is loaded, the failure reason when it is not; the flag is
\* true exactly when the message names a strategy.
C8_MessageTellsOutcome ==
    Constructed =>
      /\ model_loaded <=> message \in LoadedMessages
      /\ ~model_loaded => message \in FailureMessages

\* C9: no call of status, predict or explain changes the loaded flag or the
\* message, and status returns the message.
C9_CallsLeaveStatus ==
    /\ [][Constructed => (model_loaded' = model_loaded /\ message' = message)]_vars
    /\ [](result.op = "status" => result.message = message)
\* a call of predict has failed on a loaded adapter
C9_Witness ==
    /\ pc = "returned"
    /\ result.op = "predict"
    /\ result.message = "predict_failed"
    /\ message = "loaded_nn"
    /\ model_loaded

\* C10: explain returns no contributions and no risk, in every adapter state
\* and for every input, so refresh_contributions gives every feature the
\* rounded value of compute_contribution.
C10_ExplainAbsentHeuristicUsed ==
    /\ result.op = "explain" =>
         /\ ~result.raised
         /\ ~result.contributions.present
         /\ ~result.risk.present
    /\ patient # NoPatient =>
         \A i \in DOMAIN patient.features :
           /\ patient.source[i] = "heuristic"
           /\ patient.features[i].contribution = Heuristic(patient.features[i])
\* refresh_contributions has run against a loaded adapter
C10_Witness ==
    /\ pc = "returned"
    /\ model_loaded
    /\ patient # NoPatient
    /\ patient.features[1].contribution = 140
    /\ patient.topContributors[1] = <<"gcs_eye", "down">>

\* C11: one complete sampling run (impute, then the mean over the samples)
\* on an input and a mask of one shape, for any number of samples N >= 1,
\* returns a tensor of the shape of the input with no NaN cell; and
\* _prepare_input returns an array of the shape of its input with no NaN
\* cell.
C11_SameShapeNoMissing ==
    /\ (spc = "done" /\ cond_mask = observed_data.shape) =>
         /\ imputed.shape = observed_data.shape
         /\ ~imputed.nan
    /\ prepared.called =>
         /\ ~prepared.raised
         /\ prepared.array.shape = prepared.input_shape
         /\ ~AnyNaN(prepared.array)

\* (C11, for the calls of _prepare_input that return: the array has the shape
\* of the input and no NaN cell.)
C11_PreparedWhenReturned ==
    (prepared.called /\ ~prepared.raised) =>
      /\ prepared.array.shape = prepared.input_shape
      /\ ~AnyNaN(prepared.array)

\* (C11, for the sampling runs whose schedule keeps alpha below 1: the
\* returned tensor has the shape of the input and no NaN cell.)
C11_SampledWhenAlphaBelowOne ==
    (spc = "done" /\ cond_mask = observed_data.shape
       /\ \A i \in 1..num_steps : alpha[i] < One) =>
      /\ imputed.shape = observed_data.shape
      /\ ~imputed.nan

\* C12: when cond_mask and observed_data have different shapes, the sampling
\* run fails before any diffusion step is executed: no reverse step is done
\* with the mismatched mask and the run returns nothing.
MaskMismatch ==
    /\ spc \in {"samples", "steps", "raised", "done"}
    /\ cond_mask # observed_data.shape
C12_MismatchFailsFast ==
    MaskMismatch => (denoised = <<>> /\ spc # "done")

\* C18: in one run of impute with S steps and N samples every sample starts
\* from a fresh noise candidate and goes through the steps t = S-1, ..., 0 in
\* that order, each once (N*S denoiser calls in a run that returns); noise is
\* added after the reverse update at every step t > 0 and not at t = 0.
ExpectedSteps(n, s) ==
    [k \in 1..(n * s) |->
       [sample |-> ((k - 1) \div s) + 1,
        t |-> s - 1 - ((k - 1) % s),
        from |-> IF (k - 1) % s = 0 THEN "noise" ELSE "update",
        noised |-> s - 1 - ((k - 1) % s) > 0]]
C18_ReverseStepsInOrder ==
    /\ Len(denoised) <= n_samples * num_steps
    /\ denoised = SubSeq(ExpectedSteps(n_samples, num_steps), 1, Len(denoised))
    /\ spc = "done" => Len(denoised) = n_samples * num_steps
\* a run of two samples of three steps has returned
C18_Witness ==
    /\ spc = "done"
    /\ n_samples = 2
    /\ num_steps = 3
    /\ Len(denoised) = 6
    /\ denoised[4] = [sample |-> 2, t |-> 2, from |-> "noise", noised |-> TRUE]

\* C19: for every num_steps >= 1 and 0 < beta_start < beta_end < 1 the
\* schedule built by CSDI_base.__init__ has increasing betas, alpha_hat below
\* 1, alpha(0) = alpha_hat(0), alpha(t) the product of alpha(t-1) and
\* alpha_hat(t), alpha strictly decreasing, and 0 < alpha(t) < 1 for every t
\* (so that 1 - alpha(t), the divisor of the reverse step, is never 0).
LessFraction(a, b) == a.num * b.den < b.num * a.den
C19_ScheduleSound ==
    spc \notin {"idle", "new"} =>
      /\ Len(alpha) = num_steps
      /\ alpha[1] = alpha_hat[1]
      /\ \A i \in 1..num_steps :
           /\ alpha_hat[i] < One
           /\ 0 < alpha[i]
           /\ alpha[i] < One
      /\ \A i \in 1..(num_steps - 1) :
           /\ LessFraction(Beta(config, i - 1), Beta(config, i))
           /\ alpha[i + 1] = RoundF(alpha[i] * alpha_hat[i + 1], One)
           /\ alpha[i + 1] < alpha[i]

\* C13: at every moment at most one call of update_patient is under way for
\* any patient: no second update of a patient starts, in the same pass or in
\* a later one, before the previous update of that patient has finished.
C13_OneUpdateInFlight ==
    \A i \in DOMAIN inflight : inflight[i] <= 1
\* the first patient is being updated again, in a later pass
C13_Witness ==
    /\ upc = "updating"
    /\ index = 1
    /\ inflight[1] = 1
    /\ clock >= 1
    /\ PATIENTS[1].riskHistory[HISTORY_POINTS].source # "build"

\* C14: a tick that fires while the work of the previous one is still
\* draining is skipped, not queued, and the skip can be seen through the
\* status surface: the step that skips a tick changes what status returns.
C14_SkippedTickObservable ==
    [][overruns' > overruns => status' # status]_vars

C15_NoReadDuringPass ==
    ~served.during_pass

\* C16: every pass calls update_patient for every patient exactly once, in
\* the order of PATIENTS, and every call appends exactly one entry to the
\* patient's riskHistory.
C16_EveryPatientOncePerTick ==
    /\ Len(visits) <= NumPatients
    /\ \A k \in 1..Len(visits) : visits[k] = k
    /\ \A i \in DOMAIN appended : appended[i] <= 1
    /\ upc \in {"sleeping", "dead"} =>
         /\ Len(visits) = NumPatients
         /\ \A i \in DOMAIN appended : appended[i] = 1

\* (C16, for the passes that reach their end.)
C16_CompletedPass ==
    /\ Len(visits) <= NumPatients
    /\ \A k \in 1..Len(visits) : visits[k] = k
    /\ \A i \in DOMAIN appended : appended[i] <= 1
    /\ upc = "sleeping" =>
         /\ Len(visits) = NumPatients
         /\ \A i \in DOMAIN appended : appended[i] = 1

\* C17: no failure of the model pipeline leaves MODEL.predict, whatever the
\* adapter state and the model sequence, so the task that runs loop() never
\* ends.
C17_UpdaterNeverEnds ==
    upc # "dead"

\* the readings of a feature that are not later than a time
NotLater(feature, time) ==
    {i \in 1..Len(feature.readings) :
       feature.readings[i].timestamp.text <= time}

\* C20: for a patient with features build_model_sequence returns
\* max(MODEL_SEQ_LEN, 1) rows of 36 columns; column 0 holds the age, column 1
\* the sex, and column MODEL_COLUMN_INDEX[k] - 1 of the row of a target time
\* holds the value of a latest reading of channel k among those not later than
\* the target time, or NaN when there is no such reading.
C20_SequenceOfLatestReadings ==
    (bpc = "built" /\ subject.features # <<>>) =>
      /\ Len(sequence) = (IF seq_len > 1 THEN seq_len ELSE 1)
      /\ \A t \in 1..Len(sequence) :
           LET time == end_time - interval * (Len(sequence) - t) IN
           /\ DOMAIN sequence[t] = 1..36
           /\ GetItem(sequence[t], 0) = Num(subject.age)
           /\ GetItem(sequence[t], 1) =
                Num(IF subject.sex = "M" THEN 1 ELSE 0)
           /\ \A k \in 1..Len(subject.features) :
                LET feature == subject.features[k]
                    cell == GetItem(sequence[t],
                                    MODEL_COLUMN_INDEX[feature.key] - 1)
                IN IF NotLater(feature, time) = {}
                   THEN cell = NaN
                   ELSE \E i \in NotLater(feature, time) :
                          /\ cell = Num(feature.readings[i].value)
                          /\ \A j \in NotLater(feature, time) :
                               feature.readings[j].timestamp.text
                                 <= feature.readings[i].timestamp.text
\* A sequence of two rows or more whose first row takes a reading made
\* exactly at its target time, the patient holding a later reading that the
\* last row takes.
C20_Witness ==
    /\ bpc = "built"
    /\ subject.features # <<>>
    /\ Len(sequence) >= 2
    /\ LET first == subject.features[1].readings[1]
           last == subject.features[1].readings[HISTORY_POINTS]
       IN /\ first.timestamp.text = end_time - interval * (Len(sequence) - 1)
          /\ last.timestamp.text > first.timestamp.text
          /\ first.value # last.value
          /\ GetItem(sequence[1], MODEL_COLUMN_INDEX.pco2 - 1)
               = Num(first.value)
          /\ GetItem(sequence[Len(sequence)], MODEL_COLUMN_INDEX.pco2 - 1)
               = Num(last.value)

\* C21: the model_loaded a returned predict reports equals the model_loaded
\* explain reports on the same adapter, whatever the constructor did and
\* whatever the input is.
C21_PredictAgreesWithExplain ==
    (pc = "returned" /\ result.op = "predict" /\ ~result.raised) =>
      \A features \in SingleDicts :
        result.model_loaded = explain(features).model_loaded

\* the generator was called and what it returned was taken: a tensor whose
\* squeezed shape is the shape of the array
GeneratedTaken ==
    /\ gen_model # None /\ torch
    /\ AnyNaN(prepared.input)
    /\ prepared.generated.kind = "tensor"
    /\ Squeeze(<<1, prepared.generated.rows, prepared.generated.cols>>)
         = prepared.input.shape

\* C22: in the array _prepare_input hands to the scaler every cell that was
\* not missing in the input holds its input value, and every cell that was
\* missing holds the generated value when the generated shape matches and 0
\* otherwise, whatever the generator returned.
C22_ObservedCellsKept ==
    (prepared.called /\ ~prepared.raised) =>
      \A t \in 1..Len(prepared.input.cells) :
        \A n \in 1..Len(prepared.input.cells[t]) :
          prepared.to_scaler.cells[t][n] =
            IF ~prepared.input.cells[t][n].nan
            THEN prepared.input.cells[t][n]
            ELSE IF GeneratedTaken THEN prepared.generated.fill
            ELSE Num(0)

\* (C22, for the cells that hold a finite number in the input: they hold
\* the same number in the array handed to the scaler.)
C22_FiniteCellsKept ==
    (prepared.called /\ ~prepared.raised) =>
      \A t \in 1..Len(prepared.input.cells) :
        \A n \in 1..Len(prepared.input.cells[t]) :
          LET cell == prepared.input.cells[t][n] IN
          (~cell.nan /\ cell # Inf) => prepared.to_scaler.cells[t][n] = cell

C23_AfterUpdate ==
    (rpc = "created" /\ chart.updated) =>
      /\ chart.currentRisk \in 0..100
      /\ chart.currentRisk = chart.riskHistory[Len(chart.riskHistory)]

\* the times of a history are in non-decreasing order
InTimeOrder(times) ==
    \A k \in 1..(Len(times) - 1) : times[k] <= times[k + 1]
\* one entry was appended to a history and its oldest entry removed
Slid(old, new) ==
    /\ Len(new) = Len(old)
    /\ \A k \in 1..(Len(old) - 1) : new[k] = old[k + 1]

C25_SnapshotsBetweenPasses ==
    served.kind = "event" =>
      /\ ~served.during_pass
      /\ ~served.half
      /\ ~served.uneven

\* (C25, as long as the task that runs loop() has not ended.)
C25_WhileUpdaterRuns ==
    (served.kind = "event" /\ upc # "dead") =>
      /\ ~served.during_pass
      /\ ~served.half
      /\ ~served.uneven
=============================================================================
